---- MODULE Spec2Model ----
(***************************************************************************)
(* A model of the kinematics core of bot.py: Vector, TimeRecordedValue,    *)
(* ChangeRecordedValue, MotionVector and MovableObject, together with the  *)
(* drivers of tests/unit/test_bot.py.                                      *)
(*                                                                         *)
(* Python numbers are modelled as exact rationals.  A value carries the    *)
(* tag of its Python type, because differentiated() dispatches on          *)
(* type(value) and on the truth value of the previous value.               *)
(***************************************************************************)
EXTENDS Integers, Sequences, FiniteSets, TLC

VARIABLES
    clock,        \* every value time() has returned so far, oldest first
    log,          \* every value the caller has assigned so far, oldest first
    tv,           \* a TimeRecordedValue
    cv,           \* a ChangeRecordedValue
    ret,          \* outcome of the last differentiated() call on cv
    mo,           \* a MovableObject
    raised,       \* how the last call on mo ended: "" or the exception raised
    test,         \* the method of TestMovableObject that is running
    pc,           \* the line of that method that runs next
    i,            \* the method's loop index
    position,     \* the method's local variable position
    step_vector   \* the method's local variable step_vector

vars == <<clock, log, tv, cv, ret, mo, raised, test, pc, i, position, step_vector>>

wrapperVars == <<tv, cv, ret>>

objectVars == <<mo, raised>>

testVars == <<test, pc, i, position, step_vector>>

\* ------------------------------------------------------------------------
\* Bounds of the model.

\* assignments made to a wrapper after its construction
MaxAssign == 2

\* largest int scalar assigned to a wrapper
MaxInt == 2

\* ------------------------------------------------------------------------
\* Exact rational arithmetic: [n |-> numerator, d |-> denominator > 0],
\* always in lowest terms.

Abs(k) ==
    IF k < 0 THEN -k ELSE k

RECURSIVE GCD(_, _)
GCD(a, b) ==
    IF b = 0 THEN a ELSE GCD(b, a % b)

Rat(n, d) ==
    LET g == GCD(Abs(n), Abs(d))
        s == IF d < 0 THEN -1 ELSE 1
    IN  [n |-> s * (n \div g), d |-> s * (d \div g)]

RInt(k) ==
    [n |-> k, d |-> 1]

RSub(a, b) ==
    LET l == (a.d \div GCD(a.d, b.d)) * b.d
    IN  Rat(a.n * (l \div a.d) - b.n * (l \div b.d), l)

RAdd(a, b) ==
    LET l == (a.d \div GCD(a.d, b.d)) * b.d
    IN  Rat(a.n * (l \div a.d) + b.n * (l \div b.d), l)

RMul(a, b) ==
    LET g1 == GCD(Abs(a.n), b.d)
        g2 == GCD(Abs(b.n), a.d)
    IN  Rat((a.n \div g1) * (b.n \div g2), (a.d \div g2) * (b.d \div g1))

\* a / b for b # 0
RDiv(a, b) ==
    RMul(a, Rat(b.d, b.n))

RECURSIVE RLeq(_, _)
\* a <= b, decided as the continued fractions of a and b are: by their whole
\* parts and, where those agree, by the reciprocals of their remainders
RLeq(a, b) ==
    LET wa == a.n \div a.d
        wb == b.n \div b.d
        ra == a.n % a.d
        rb == b.n % b.d
    IN  IF wa # wb THEN wa < wb
        ELSE IF ra = 0 THEN TRUE
        ELSE IF rb = 0 THEN FALSE
        ELSE RLeq([n |-> b.d, d |-> rb], [n |-> a.d, d |-> ra])

RAbs(a) ==
    [n |-> Abs(a.n), d |-> a.d]

\* ------------------------------------------------------------------------
\* Python values.  tag is the value's type; x is the number of an int or a
\* float; x and y are the components of a Vector; s is the text of a str.

\* None
NoneV ==
    [tag |-> "NoneType"]

IntV(k) ==
    [tag |-> "int", x |-> RInt(k)]

FloatV(q) ==
    [tag |-> "float", x |-> q]

StrV(t) ==
    [tag |-> "str", s |-> t]

\* Vector(x, y) of exact components
Vector(qx, qy) ==
    [tag |-> "Vector", x |-> qx, y |-> qy]

\* Vector(x, y) of int components
Vec(a, b) ==
    Vector(RInt(a), RInt(b))

\* Vector._value_is_numerical
value_is_numerical(v) ==
    v.tag = "int" \/ v.tag = "float"

\* bool(v): None, zero numbers and the empty str are false; a Vector defines
\* neither __bool__ nor __len__, so every Vector is true
Truthy(v) ==
    CASE v.tag = "NoneType" -> FALSE
      [] v.tag = "int" -> v.x.n # 0
      [] v.tag = "float" -> v.x.n # 0
      [] v.tag = "str" -> v.s # ""
      [] OTHER -> TRUE

\* the type of the result of int/float arithmetic
NumTag(a, b) ==
    IF a.tag = "float" \/ b.tag = "float" THEN "float" ELSE "int"

\* Outcome of a call: kind is "return" or the name of the exception raised;
\* div tells whether a division was evaluated.
Return(v, divided) ==
    [kind |-> "return", val |-> v, div |-> divided]

Raise(e) ==
    [kind |-> e, val |-> NoneV, div |-> FALSE]

NotCalled ==
    [kind |-> "not called", val |-> NoneV, div |-> FALSE]

\* Vector._add(self, value)
Vector_add(self, value) ==
    IF value_is_numerical(value) \/ value.tag = "Vector"
    THEN LET added_x == value.x
             added_y == IF value.tag = "Vector" THEN value.y ELSE value.x
         IN  Return(Vector(RAdd(self.x, added_x), RAdd(self.y, added_y)), FALSE)
    ELSE Raise("NotImplementedError")

\* Vector._multiply(self, value)
Vector_multiply(self, value) ==
    IF value_is_numerical(value) \/ value.tag = "Vector"
    THEN LET multiplier_x == value.x
             multiplier_y == IF value.tag = "Vector" THEN value.y ELSE value.x
         IN  Return(Vector(RMul(self.x, multiplier_x), RMul(self.y, multiplier_y)),
                    FALSE)
    ELSE Raise("NotImplementedError")

\* a <= b for two Vectors: dataclass(order=True) compares the tuples (x, y)
Vector_le(a, b) ==
    \/ a.x # b.x /\ RLeq(a.x, b.x)
    \/ a.x = b.x /\ RLeq(a.y, b.y)

\* _subtract as it would be had it been copied from _add and left adding
Vector_subtract_Adds(self, value, reverse_subtract) ==
    IF value_is_numerical(value) \/ value.tag = "Vector"
    THEN LET subed_x == value.x
             subed_y == IF value.tag = "Vector" THEN value.y ELSE value.x
         IN  Return(Vector(RAdd(self.x, subed_x), RAdd(self.y, subed_y)), FALSE)
    ELSE Raise("NotImplementedError")

\* Vector._subtract(self, value, reverse_subtract)
Vector_subtract(self, value, reverse_subtract) ==
    IF value_is_numerical(value) \/ value.tag = "Vector"
    THEN LET subed_x == value.x
             subed_y == IF value.tag = "Vector" THEN value.y ELSE value.x
         IN  IF reverse_subtract
             THEN Return(Vector(RSub(subed_x, self.x), RSub(subed_y, self.y)), FALSE)
             ELSE Return(Vector(RSub(self.x, subed_x), RSub(self.y, subed_y)), FALSE)
    ELSE Raise("NotImplementedError")

\* Vector._divide(self, value)
Vector_divide(self, value) ==
    IF value_is_numerical(value) \/ value.tag = "Vector"
    THEN LET divider_x == value.x
             divider_y == IF value.tag = "Vector" THEN value.y ELSE value.x
         IN  IF divider_x.n = 0 \/ divider_y.n = 0
             THEN Raise("ZeroDivisionError")
             ELSE Return(Vector(RDiv(self.x, divider_x), RDiv(self.y, divider_y)), TRUE)
    ELSE Raise("NotImplementedError")

\* a - b as Python evaluates it: the numeric types, Vector.__sub__, and
\* Vector.__rsub__ when the left operand's type cannot subtract a Vector
PySub(a, b) ==
    CASE a.tag = "Vector" -> Vector_subtract(a, b, FALSE)
      [] a.tag # "Vector" /\ b.tag = "Vector" -> Vector_subtract(b, a, TRUE)
      [] value_is_numerical(a) /\ value_is_numerical(b) ->
            Return([tag |-> NumTag(a, b), x |-> RSub(a.x, b.x)], FALSE)
      [] OTHER -> Raise("TypeError")

\* a / b as Python evaluates it: true division of numbers gives a float and
\* raises ZeroDivisionError for a zero divisor; Vector.__truediv__
PyTrueDiv(a, b) ==
    CASE a.tag = "Vector" -> Vector_divide(a, b)
      [] value_is_numerical(a) /\ value_is_numerical(b) ->
            IF b.x.n = 0
            THEN Raise("ZeroDivisionError")
            ELSE Return(FloatV(RDiv(a.x, b.x)), TRUE)
      [] OTHER -> Raise("TypeError")

\* ------------------------------------------------------------------------
\* TimeRecordedValue: _value and _value_time.

\* the setter as it would be if it stamped a value only once: the time of
\* an earlier assignment survives a later one
TimeRecordedValue_set_StaleTime(self, value, current_time) ==
    [value |-> value,
     time |-> IF self.time = NoneV THEN current_time ELSE self.time]

\* TimeRecordedValue.value setter; current_time is what time() returned
TimeRecordedValue_set(self, value, current_time) ==
    [value |-> value, time |-> current_time]

\* TimeRecordedValue.__init__
TimeRecordedValue_init(value, current_time) ==
    TimeRecordedValue_set([value |-> NoneV, time |-> NoneV], value, current_time)

\* ------------------------------------------------------------------------
\* ChangeRecordedValue: _value and _last_value, each a TimeRecordedValue or
\* None.  An object that defines neither __bool__ nor __len__ is true, so
\* "if self._value" asks whether it is None.

\* the setter as it would be with its two statements swapped: _last_value
\* is copied from the TimeRecordedValue that was just created
ChangeRecordedValue_set_Swapped(self, value, current_time) ==
    [value |-> TimeRecordedValue_init(value, current_time),
     last_value |-> TimeRecordedValue_init(value, current_time)]

\* ChangeRecordedValue.value setter: copy the current TimeRecordedValue into
\* _last_value, then wrap the new value in a fresh TimeRecordedValue
ChangeRecordedValue_set(self, value, current_time) ==
    [value |-> TimeRecordedValue_init(value, current_time),
     last_value |-> self.value]

\* ChangeRecordedValue.__init__
ChangeRecordedValue_init(value, current_time) ==
    ChangeRecordedValue_set([value |-> NoneV, last_value |-> NoneV],
                            value, current_time)

\* the read-only properties value, value_time, last_value and
\* last_value_time of ChangeRecordedValue
ChangeRecordedValue_value(self) ==
    IF self.value # NoneV THEN self.value.value ELSE NoneV

ChangeRecordedValue_value_time(self) ==
    IF self.value # NoneV THEN self.value.time ELSE NoneV

ChangeRecordedValue_last_value(self) ==
    IF self.last_value # NoneV THEN self.last_value.value ELSE NoneV

ChangeRecordedValue_last_value_time(self) ==
    IF self.last_value # NoneV THEN self.last_value.time ELSE NoneV

\* differentiated() as it would be if its identity element were the int 0
\* for every value type
differentiated_IntIdentity(self) ==
    IF self.last_value = NoneV \/ ~Truthy(self.last_value.value)
    THEN Return(IntV(0), FALSE)
    ELSE LET value_change == PySub(self.value.value, self.last_value.value)
             time_change == PySub(self.value.time, self.last_value.time)
         IN  IF value_change.kind # "return"
             THEN value_change
             ELSE IF time_change.kind # "return"
             THEN time_change
             ELSE PyTrueDiv(value_change.val, time_change.val)

\* ChangeRecordedValue.differentiated
differentiated(self) ==
    IF self.last_value = NoneV \/ ~Truthy(self.last_value.value)
    THEN LET value_class == self.value.value.tag
         IN  CASE value_class = "int" -> Return(IntV(0), FALSE)
               [] value_class = "float" -> Return(FloatV(RInt(0)), FALSE)
               [] value_class = "Vector" -> Return(Vec(0, 0), FALSE)
               [] OTHER -> Raise("NotImplementedError")
    ELSE LET value_change == PySub(self.value.value, self.last_value.value)
             time_change == PySub(self.value.time, self.last_value.time)
         IN  IF value_change.kind # "return"
             THEN value_change
             ELSE IF time_change.kind # "return"
             THEN time_change
             ELSE PyTrueDiv(value_change.val, time_change.val)

\* ------------------------------------------------------------------------
\* MotionVector: a ChangeRecordedValue that holds a Vector (_vector).

\* MotionVector.__init__(x, y), x and y exact numbers
MotionVector_init(x, y, current_time) ==
    ChangeRecordedValue_init(Vector(x, y), current_time)

\* MotionVector.vector setter
MotionVector_set(self, vector, current_time) ==
    ChangeRecordedValue_set(self, vector, current_time)

\* MotionVector.differentiated
MotionVector_differentiated(self) ==
    differentiated(self)

\* ------------------------------------------------------------------------
\* MovableObject: _position, _velocity and _acceleration.  A call that reads
\* the clock is given the readings it will get, times[1], times[2], ..., and
\* tells how it ended, how many of them it read and what it left of self.

Ended(self, exception, reads) ==
    [self |-> self, raised |-> exception, reads |-> reads]

\* the position setter as it would be with its last two statements swapped:
\* the acceleration is differentiated from the velocity of the call before
MovableObject_position_set_Stale(self, position_value, times) ==
    LET s1 == [self EXCEPT !.position =
                   MotionVector_set(self.position, position_value, times[1])]
        d1 == MotionVector_differentiated(s1.position)
        d2 == MotionVector_differentiated(s1.velocity)
        s2 == [s1 EXCEPT !.velocity =
                   MotionVector_set(s1.velocity, d1.val, times[2])]
        s3 == [s2 EXCEPT !.acceleration =
                   MotionVector_set(s2.acceleration, d2.val, times[3])]
    IN  IF d1.kind # "return" THEN Ended(s1, d1.kind, 1)
        ELSE IF d2.kind # "return" THEN Ended(s2, d2.kind, 2)
        ELSE Ended(s3, "", 3)

\* the position setter as it would be with its last statement copied from the
\* one before it and half changed: the acceleration is differentiated from
\* the position
MovableObject_position_set_Copied(self, position_value, times) ==
    LET s1 == [self EXCEPT !.position =
                   MotionVector_set(self.position, position_value, times[1])]
        d1 == MotionVector_differentiated(s1.position)
        s2 == [s1 EXCEPT !.velocity =
                   MotionVector_set(s1.velocity, d1.val, times[2])]
        d2 == MotionVector_differentiated(s2.position)
        s3 == [s2 EXCEPT !.acceleration =
                   MotionVector_set(s2.acceleration, d2.val, times[3])]
    IN  IF d1.kind # "return" THEN Ended(s1, d1.kind, 1)
        ELSE IF d2.kind # "return" THEN Ended(s2, d2.kind, 2)
        ELSE Ended(s3, "", 3)

\* MovableObject.position setter
MovableObject_position_set(self, position_value, times) ==
    LET s1 == [self EXCEPT !.position =
                   MotionVector_set(self.position, position_value, times[1])]
        d1 == MotionVector_differentiated(s1.position)
        s2 == [s1 EXCEPT !.velocity =
                   MotionVector_set(s1.velocity, d1.val, times[2])]
        d2 == MotionVector_differentiated(s2.velocity)
        s3 == [s2 EXCEPT !.acceleration =
                   MotionVector_set(s2.acceleration, d2.val, times[3])]
    IN  IF d1.kind # "return" THEN Ended(s1, d1.kind, 1)
        ELSE IF d2.kind # "return" THEN Ended(s2, d2.kind, 2)
        ELSE Ended(s3, "", 3)

\* the constructor as it would be without its closing "self.position =
\* position": the three MotionVectors are created and nothing else is done
MovableObject_init_NoAssignment(position_value, times) ==
    Ended([position |->
               MotionVector_init(position_value.x, position_value.y, times[1]),
           velocity |-> MotionVector_init(RInt(0), RInt(0), times[2]),
           acceleration |-> MotionVector_init(RInt(0), RInt(0), times[3])],
          "", 3)

\* MovableObject.__init__(position): three MotionVectors, then the position
\* setter
MovableObject_init(position_value, times) ==
    LET made == [position |->
                     MotionVector_init(position_value.x, position_value.y, times[1]),
                 velocity |-> MotionVector_init(RInt(0), RInt(0), times[2]),
                 acceleration |-> MotionVector_init(RInt(0), RInt(0), times[3])]
        set == MovableObject_position_set(made, position_value,
                                          SubSeq(times, 4, Len(times)))
    IN  Ended(set.self, set.raised, 3 + set.reads)

\* the read-only properties position, velocity and acceleration
MovableObject_position(self) ==
    ChangeRecordedValue_value(self.position)

MovableObject_velocity(self) ==
    ChangeRecordedValue_value(self.velocity)

MovableObject_acceleration(self) ==
    ChangeRecordedValue_value(self.acceleration)

\* ------------------------------------------------------------------------
\* The clock.  time() never runs backwards; two readings taken within the
\* clock's resolution are equal.

ClockAdvance ==
    {0, 1}

\* the reading that follows the readings made so far, the clock having
\* moved on by d; the first reading is the epoch the clock counts from
Reading(readings, d) ==
    IF readings = <<>>
    THEN IntV(0)
    ELSE IntV(readings[Len(readings)].x.n + d)

RECURSIVE ReadingsFrom(_, _)
\* the readings that follow `readings`, the clock having moved on by
\* advances[1], advances[2], ... between them
ReadingsFrom(readings, advances) ==
    IF advances = <<>>
    THEN <<>>
    ELSE LET t == Reading(readings, advances[1])
         IN  <<t>> \o ReadingsFrom(<<t>>, Tail(advances))

\* ------------------------------------------------------------------------
\* The values a caller assigns.

IntVals ==
    {IntV(k) : k \in -1..MaxInt}

FloatVals ==
    {FloatV(RInt(0)), FloatV(Rat(1, 2)), FloatV(Rat(5, 2))}

VecVals ==
    {Vec(0, 0), Vec(4, 4), Vec(20, 20), Vec(1, 3)}

StrVals ==
    {StrV(""), StrV("foo"), StrV("bar")}

Values ==
    IntVals \cup FloatVals \cup VecVals \cup StrVals

\* ------------------------------------------------------------------------
\* Values of the variables a specification does not use.

IdleWrappers ==
    tv = NoneV /\ cv = NoneV /\ ret = NotCalled

IdleObject ==
    mo = NoneV /\ raised = ""

IdleTest ==
    test = "" /\ pc = 0 /\ i = 0 /\ position = NoneV /\ step_vector = NoneV

\* ------------------------------------------------------------------------
\* SpecTRV: a caller constructs a TimeRecordedValue and assigns to it.

InitTRV ==
    /\ \E v \in Values :
          /\ clock = <<Reading(<<>>, 0)>>
          /\ log = <<v>>
          /\ tv = TimeRecordedValue_init(v, Reading(<<>>, 0))
    /\ cv = NoneV
    /\ ret = NotCalled
    /\ IdleObject
    /\ IdleTest

\* tv.value = v
AssignTRV ==
    /\ Len(log) <= MaxAssign
    /\ \E v \in Values, d \in ClockAdvance :
          /\ clock' = Append(clock, Reading(clock, d))
          /\ log' = Append(log, v)
          /\ tv' = TimeRecordedValue_set(tv, v, Reading(clock, d))
    /\ UNCHANGED <<cv, ret, objectVars, testVars>>

NextTRV ==
    AssignTRV

SpecTRV ==
    InitTRV /\ [][NextTRV]_vars

\* ------------------------------------------------------------------------
\* SpecCRV: a caller constructs a ChangeRecordedValue, assigns to it and
\* calls differentiated().

InitCRV ==
    /\ \E v \in Values :
          /\ clock = <<Reading(<<>>, 0)>>
          /\ log = <<v>>
          /\ cv = ChangeRecordedValue_init(v, Reading(<<>>, 0))
    /\ tv = NoneV
    /\ ret = NotCalled
    /\ IdleObject
    /\ IdleTest

\* cv.value = v
AssignCRV ==
    /\ Len(log) <= MaxAssign
    /\ \E v \in Values, d \in ClockAdvance :
          /\ clock' = Append(clock, Reading(clock, d))
          /\ log' = Append(log, v)
          /\ cv' = ChangeRecordedValue_set(cv, v, Reading(clock, d))
    /\ ret' = NotCalled
    /\ UNCHANGED <<tv, objectVars, testVars>>

\* cv.differentiated()
DifferentiateCRV ==
    /\ ret = NotCalled
    /\ ret' = differentiated(cv)
    /\ UNCHANGED <<clock, log, tv, cv, objectVars, testVars>>

NextCRV ==
    \/ AssignCRV
    \/ DifferentiateCRV

SpecCRV ==
    InitCRV /\ [][NextCRV]_vars

\* ------------------------------------------------------------------------
\* SpecMO: a caller constructs a MovableObject and assigns positions to it.
\* A caller that catches the error of a failed assignment may go on using
\* the object.

\* assignments to position after the construction
MaxMoves == 2

Positions ==
    {Vec(0, 0), Vec(1, 3), Vec(4, 1)}

InitMO ==
    /\ clock = <<>>
    /\ log = <<>>
    /\ IdleWrappers
    /\ IdleObject
    /\ IdleTest

\* mo = MovableObject(p)
ConstructMO ==
    /\ mo = NoneV
    /\ raised = ""
    /\ \E p \in Positions, advances \in [1..6 -> ClockAdvance] :
          \E end \in {MovableObject_init(p, ReadingsFrom(clock, advances))} :
              /\ clock' = clock \o SubSeq(ReadingsFrom(clock, advances), 1, end.reads)
              /\ log' = Append(log, p)
              /\ raised' = end.raised
              /\ mo' = IF end.raised = "" THEN end.self ELSE NoneV
    /\ UNCHANGED <<wrapperVars, testVars>>

\* mo.position = p
AssignMO ==
    /\ mo # NoneV
    /\ Len(log) <= MaxMoves
    /\ \E p \in Positions, advances \in [1..3 -> ClockAdvance] :
          \E end \in {MovableObject_position_set(mo, p, ReadingsFrom(clock, advances))} :
              /\ clock' = clock \o SubSeq(ReadingsFrom(clock, advances), 1, end.reads)
              /\ log' = Append(log, p)
              /\ raised' = end.raised
              /\ mo' = end.self
    /\ UNCHANGED <<wrapperVars, testVars>>

NextMO ==
    \/ ConstructMO
    \/ AssignMO

SpecMO ==
    InitMO /\ [][NextMO]_vars

\* ------------------------------------------------------------------------
\* SpecTest: the three methods of TestMovableObject, statement by statement.
\* pc is the line of test_bot.py that runs next, 0 once the method has
\* returned.  The clock is the mock each method installs; its readings are
\* counted from start_time, which cancels in every difference of two
\* readings.

iterations == 10

\* almost_equal(value_1, value_2, eps) of test_bot.py, on Vectors:
\* value_1 + eps >= value_2 and value_2 - eps <= value_1.  Each conjunct
\* compares two Vectors, that is the tuples (x, y), and each says that
\* value_2 - value_1 <= Vector(eps, eps).
almost_equal(value_1, value_2, eps) ==
    Vector_le(Vector_subtract(value_2, value_1, FALSE).val, Vector(eps.x, eps.x))

\* the eps the tests pass to almost_equal: 0.001
test_eps ==
    FloatV(Rat(1, 1000))

Tests ==
    {"test_constant_position", "test_constant_velocity",
     "test_constant_acceleration"}

\* the (k+1)-th value of time.side_effect, less start_time
MockTime(method, k) ==
    IF method = "test_constant_position"
    THEN IntV(2 * k)
    ELSE FloatV(RMul(Rat(3333, 10000), RInt(k)))

\* the next n values of time.side_effect
MockReadings(n) ==
    [k \in 1..n |-> MockTime(test, Len(clock) + k - 1)]

\* the number of values of time.side_effect
MockLength ==
    iterations + 26

InitTest ==
    /\ test \in Tests
    /\ pc = CASE test = "test_constant_position" -> 93
              [] test = "test_constant_velocity" -> 108
              [] test = "test_constant_acceleration" -> 136
    /\ i = 0
    /\ position = Vec(10, 10)
    /\ step_vector = NoneV
    /\ clock = <<>>
    /\ log = <<>>
    /\ IdleWrappers
    /\ IdleObject

\* atom = b.MovableObject(position)
TestConstruct ==
    /\ raised = ""
    /\ pc \in {93, 108, 136}
    /\ Len(clock) + 6 <= MockLength
    /\ \E end \in {MovableObject_init(position, MockReadings(6))} :
          /\ clock' = clock \o SubSeq(MockReadings(6), 1, end.reads)
          /\ raised' = end.raised
          /\ mo' = IF end.raised = "" THEN end.self ELSE NoneV
    /\ log' = Append(log, position)
    /\ pc' = CASE pc = 93 -> 95
               [] pc = 108 -> 110
               [] pc = 136 -> 138
    /\ UNCHANGED <<wrapperVars, test, i, position, step_vector>>

\* step_vector = b.Vector(4, 4), and in test_constant_acceleration
\* acceleration = b.Vector(8, 8); step_vector = b.Vector(8, 8)
TestLocals ==
    /\ raised = ""
    /\ pc \in {110, 138}
    /\ step_vector' = IF pc = 110 THEN Vec(4, 4) ELSE Vec(8, 8)
    /\ pc' = IF pc = 110 THEN 119 ELSE 140
    /\ UNCHANGED <<clock, log, wrapperVars, objectVars, test, i, position>>

\* for _ in range(iterations): / for i in range(iterations):
TestLoop ==
    /\ raised = ""
    /\ pc \in {95, 119, 140}
    /\ pc' = IF i < iterations THEN pc + 1 ELSE 0
    /\ UNCHANGED <<clock, log, wrapperVars, objectVars, test, i, position, step_vector>>

\* position += step_vector
TestStep ==
    /\ raised = ""
    /\ pc \in {120, 141}
    /\ position' = Vector_add(position, step_vector).val
    /\ pc' = pc + 1
    /\ UNCHANGED <<clock, log, wrapperVars, objectVars, test, i, step_vector>>

\* atom.position = position
TestAssign ==
    /\ raised = ""
    /\ pc \in {96, 121, 142}
    /\ Len(clock) + 3 <= MockLength
    /\ \E end \in {MovableObject_position_set(mo, position, MockReadings(3))} :
          /\ clock' = clock \o SubSeq(MockReadings(3), 1, end.reads)
          /\ raised' = end.raised
          /\ mo' = end.self
    /\ log' = Append(log, position)
    /\ pc' = pc + 1
    /\ UNCHANGED <<wrapperVars, test, i, position, step_vector>>

\* expected_positions[i] of test_constant_velocity
expected_positions(k) ==
    Vector_add(Vec(10, 10), Vector_multiply(Vec(4, 4), IntV(k + 1)).val).val

\* the condition the assert statement at a line checks
Asserted(line) ==
    CASE line = 97 -> MovableObject_position(mo) = Vec(10, 10)
      [] line = 98 -> MovableObject_velocity(mo) = Vec(0, 0)
      [] line = 99 -> MovableObject_acceleration(mo) = Vec(0, 0)
      [] line = 122 -> MovableObject_position(mo) = expected_positions(i)
      [] line = 123 -> almost_equal(MovableObject_velocity(mo), Vec(4, 4), test_eps)
      [] line = 124 ->
            IF i = 0
            THEN almost_equal(MovableObject_acceleration(mo), Vec(4, 4), test_eps)
            ELSE almost_equal(MovableObject_acceleration(mo), Vec(0, 0), test_eps)
      [] line = 143 -> almost_equal(MovableObject_acceleration(mo), Vec(8, 8), test_eps)

\* an assert statement; the last statement of a loop body goes back to the
\* loop's head with the next index
TestAssert ==
    /\ raised = ""
    /\ pc \in {97, 98, 99, 122, 123, 124, 143}
    /\ IF Asserted(pc)
       THEN /\ raised' = ""
            /\ pc' = CASE pc = 99 -> 95
                       [] pc = 124 -> 119
                       [] pc = 143 -> 145
                       [] OTHER -> pc + 1
            /\ i' = IF pc \in {99, 124} THEN i + 1 ELSE i
       ELSE /\ raised' = "AssertionError"
            /\ UNCHANGED <<pc, i>>
    /\ UNCHANGED <<clock, log, wrapperVars, mo, test, position, step_vector>>

\* step_vector += acceleration
TestGrow ==
    /\ raised = ""
    /\ pc = 145
    /\ step_vector' = Vector_add(step_vector, Vec(8, 8)).val
    /\ i' = i + 1
    /\ pc' = 140
    /\ UNCHANGED <<clock, log, wrapperVars, objectVars, test, position>>

NextTest ==
    \/ TestConstruct
    \/ TestLocals
    \/ TestLoop
    \/ TestStep
    \/ TestAssign
    \/ TestAssert
    \/ TestGrow

SpecTest ==
    InitTest /\ [][NextTest]_vars

\* ------------------------------------------------------------------------
\* Properties of TimeRecordedValue (SpecTRV).

\* C6: once constructed, a TimeRecordedValue holds the most recently assigned
\* value together with the one clock reading taken during that assignment:
\* the k-th assignment made the k-th reading, and value and time both come
\* from the latest one; time is never None.
C6_ValueAndTimeOfSameAssignment ==
    /\ tv # NoneV
    /\ Len(clock) = Len(log)
    /\ tv.value = log[Len(log)]
    /\ tv.time = clock[Len(clock)]
    /\ tv.time # NoneV

\* a third assignment that changed the value while the clock had moved on
C6_Witness ==
    /\ Len(log) = 3
    /\ log[3] # log[2]
    /\ clock[3] # clock[2]
    /\ clock[2] # clock[1]
    /\ tv.value = log[3]

\* ------------------------------------------------------------------------
\* Properties of ChangeRecordedValue (SpecCRV).

\* C1: after the first assignment (the construction) last_value and
\* last_value_time are None; after every later assignment they are the value
\* that was current just before it and the time that value was stamped with;
\* value and value_time are the newly assigned value and the clock reading
\* of that assignment.
C1_PreviousIsFormerCurrent ==
    LET n == Len(log)
    IN  /\ ChangeRecordedValue_value(cv) = log[n]
        /\ ChangeRecordedValue_value_time(cv) = clock[n]
        /\ n = 1 =>
              /\ ChangeRecordedValue_last_value(cv) = NoneV
              /\ ChangeRecordedValue_last_value_time(cv) = NoneV
        /\ n > 1 =>
              /\ ChangeRecordedValue_last_value(cv) = log[n - 1]
              /\ ChangeRecordedValue_last_value_time(cv) = clock[n - 1]

\* three assignments of three different values at three different times
C1_Witness ==
    /\ Len(log) = 3
    /\ log[1] # log[2]
    /\ log[2] # log[3]
    /\ clock[1] # clock[2]
    /\ clock[2] # clock[3]
    /\ ChangeRecordedValue_last_value(cv) = log[2]
    /\ ChangeRecordedValue_last_value_time(cv) = clock[2]

\* the additive identity of a value type
AdditiveIdentity(tag) ==
    CASE tag = "int" -> IntV(0)
      [] tag = "float" -> FloatV(RInt(0))
      [] tag = "Vector" -> Vec(0, 0)

\* C3 as claimed: constructed with v0 at t0 and assigned v1 at t1 # t0, both
\* ints or both Vectors, differentiated() returns (v1 - v0) / (t1 - t0).
C3_DifferenceQuotient ==
    (/\ Len(log) = 2
     /\ ret # NotCalled
     /\ clock[1] # clock[2]
     /\ log[1].tag = log[2].tag
     /\ log[1].tag \in {"int", "Vector"})
    => /\ ret.kind = "return"
       /\ ret.val.x = RDiv(RSub(log[2].x, log[1].x), RSub(clock[2].x, clock[1].x))
       /\ log[1].tag = "Vector" =>
             ret.val.y = RDiv(RSub(log[2].y, log[1].y), RSub(clock[2].x, clock[1].x))

\* C4: differentiated() on a ChangeRecordedValue that has had only its
\* construction's assignment returns the additive identity of the value's
\* type (0, 0.0 or Vector(0,0)) whatever the value, divides nothing and
\* changes nothing.
C4_IdentityOnFirstAssignment ==
    [][(/\ ret = NotCalled
        /\ ret' # NotCalled
        /\ Len(log) = 1
        /\ log[1].tag \in {"int", "float", "Vector"})
       => /\ ret' = Return(AdditiveIdentity(log[1].tag), FALSE)
          /\ cv' = cv
          /\ clock' = clock
          /\ log' = log]_vars

\* differentiated() has returned on a float that is not zero and has no
\* predecessor
C4_Witness ==
    /\ Len(log) = 1
    /\ log[1] = FloatV(Rat(5, 2))
    /\ ret.kind = "return"
    /\ ret.val = FloatV(RInt(0))

\* C10 as claimed: differentiated() on a ChangeRecordedValue whose current
\* value is a str raises NotImplementedError, with or without a previous
\* value.
C10_UnsupportedTypeError ==
    (ret # NotCalled /\ log[Len(log)].tag = "str")
    => ret.kind = "NotImplementedError"

\* ------------------------------------------------------------------------
\* Properties of MovableObject (SpecMO).

\* the k-th reading from the end of the clock's readings, as an exact number
Read(k) ==
    clock[Len(clock) - k].x

\* q * dt = dv, component by component: q is the quotient of the change dv
\* by the time dt
IsQuotient(q, dv_x, dv_y, dt) ==
    /\ dt.n # 0
    /\ RMul(q.x, dt) = dv_x
    /\ RMul(q.y, dt) = dv_y

\* C2: an assignment to position that returns has written position, then
\* velocity, then acceleration, each stamped with its own clock reading, in
\* that order; the velocity written is the difference quotient of the new
\* and the previous position, and the acceleration written is the difference
\* quotient of the velocity written in this call and the previous velocity.
C2_CascadeInOrder ==
    (mo # NoneV /\ raised = "")
    => LET p == mo.position
           v == mo.velocity
           a == mo.acceleration
       IN  /\ p.value.value = log[Len(log)]
           /\ p.value.time.x = Read(2)
           /\ v.value.time.x = Read(1)
           /\ a.value.time.x = Read(0)
           /\ IsQuotient(v.value.value,
                         RSub(p.value.value.x, p.last_value.value.x),
                         RSub(p.value.value.y, p.last_value.value.y),
                         RSub(p.value.time.x, p.last_value.time.x))
           /\ IsQuotient(a.value.value,
                         RSub(v.value.value.x, v.last_value.value.x),
                         RSub(v.value.value.y, v.last_value.value.y),
                         RSub(v.value.time.x, v.last_value.time.x))

\* an assignment has returned that changed a velocity that was not zero
C2_Witness ==
    /\ mo # NoneV
    /\ raised = ""
    /\ Len(log) = 3
    /\ mo.velocity.last_value.value # Vec(0, 0)
    /\ mo.velocity.value.value # mo.velocity.last_value.value
    /\ mo.acceleration.value.value # Vec(0, 0)
    /\ mo.acceleration.value.value # mo.acceleration.last_value.value

\* C5 as claimed: an assignment to position that raises ZeroDivisionError
\* because the new position is stamped with the time of the previous one
\* leaves the object as it was before the call.
C5_NoPartialMutation ==
    [][(/\ mo # NoneV
        /\ Len(log') = Len(log) + 1
        /\ raised' = "ZeroDivisionError"
        /\ clock'[Len(clock) + 1] = ChangeRecordedValue_value_time(mo.position))
       => mo' = mo]_vars

\* every reading of the clock so far is later than the one before it
StrictlyIncreasing ==
    \A k \in 1..(Len(clock) - 1) : clock[k].x.n < clock[k + 1].x.n

\* every position assigned so far is the one the object was constructed at
ConstantPosition ==
    \A k \in 1..Len(log) : log[k] = log[1]

\* C9: a MovableObject constructed at p and assigned the same p again and
\* again, under clock readings that strictly increase, has after every
\* assignment position p, velocity Vector(0,0) and acceleration Vector(0,0).
C9_ConstantPosition ==
    (Len(log) >= 1 /\ ConstantPosition /\ StrictlyIncreasing)
    => /\ raised = ""
       /\ MovableObject_position(mo) = log[1]
       /\ MovableObject_velocity(mo) = Vec(0, 0)
       /\ MovableObject_acceleration(mo) = Vec(0, 0)

\* two assignments of the position the object was constructed at, which is
\* not the origin, under a clock that never stalled
C9_Witness ==
    /\ Len(log) = 3
    /\ ConstantPosition
    /\ StrictlyIncreasing
    /\ log[1] = Vec(4, 1)
    /\ Len(clock) = 12
    /\ MovableObject_position(mo) = Vec(4, 1)

\* quantity, a MotionVector of the object, was written at the k-th reading of
\* the clock and again at the reading three later, and holds the first
\* write as its previous value
WrittenTwice(quantity, k) ==
    /\ quantity.last_value # NoneV
    /\ quantity.last_value.time = clock[k]
    /\ quantity.value # NoneV
    /\ quantity.value.time = clock[k + 3]

\* C11: a construction MovableObject(p) that returns has read the clock six
\* times and has written position, velocity and acceleration twice each:
\* once, in that order, when the three MotionVectors were created (readings
\* 1, 2, 3) and once through the position setter (readings 4, 5, 6), so each
\* quantity already has a previous value, position's being p.  Whenever the
\* six readings strictly increase the construction does return, with
\* position p, velocity Vector(0,0) and acceleration Vector(0,0).
C11_ConstructionWritesTwice ==
    /\ (Len(log) = 1 /\ mo # NoneV)
       => /\ Len(clock) = 6
          /\ WrittenTwice(mo.position, 1)
          /\ WrittenTwice(mo.velocity, 2)
          /\ WrittenTwice(mo.acceleration, 3)
          /\ ChangeRecordedValue_last_value(mo.position) = log[1]
          /\ MovableObject_position(mo) = log[1]
    /\ (Len(log) = 1 /\ StrictlyIncreasing)
       => /\ raised = ""
          /\ mo # NoneV
          /\ MovableObject_position(mo) = log[1]
          /\ MovableObject_velocity(mo) = Vec(0, 0)
          /\ MovableObject_acceleration(mo) = Vec(0, 0)
          /\ ChangeRecordedValue_last_value(mo.velocity) # NoneV
          /\ ChangeRecordedValue_last_value(mo.acceleration) # NoneV

\* an object just constructed away from the origin, the clock having moved
\* on between any two of the six readings
C11_Witness ==
    /\ Len(log) = 1
    /\ log[1] = Vec(1, 3)
    /\ mo # NoneV
    /\ StrictlyIncreasing
    /\ Len(clock) = 6
    /\ mo.position.value.time # mo.position.last_value.time
    /\ ChangeRecordedValue_last_value(mo.position) = Vec(1, 3)

\* ------------------------------------------------------------------------
\* Properties of the scenarios of TestMovableObject (SpecTest).

\* |q - target| <= eps
Within(q, target, eps) ==
    RLeq(RAbs(RSub(q, target)), eps)

\* both components of a Vector are within eps of target
BothWithin(v, target, eps) ==
    /\ Within(v.x, target, eps)
    /\ Within(v.y, target, eps)

\* the positions fed to the object after its construction
Fed ==
    Len(log) - 1

\* an assignment to position has returned
Assigned ==
    mo # NoneV /\ raised = "" /\ Fed >= 1

\* C7 as claimed: in the constant-acceleration scenario, from tick 3 on (the
\* second fed position), both components of acceleration are within 0.001
\* of 8 after every position assignment.
C7_AccelerationWithinTestEps ==
    (test = "test_constant_acceleration" /\ Assigned /\ Fed >= 2)
    => BothWithin(MovableObject_acceleration(mo), RInt(8), Rat(1, 1000))

\* C7 as amended: in the constant-acceleration scenario, from tick 3 on, both
\* components of acceleration are within 0.002 of 8 after every position
\* assignment, and never below 8.
C7_AccelerationWithinTwoThousandths ==
    (test = "test_constant_acceleration" /\ Assigned /\ Fed >= 2)
    => /\ BothWithin(MovableObject_acceleration(mo), RInt(8), Rat(2, 1000))
       /\ RLeq(RInt(8), MovableObject_acceleration(mo).x)
       /\ RLeq(RInt(8), MovableObject_acceleration(mo).y)

\* the tenth position of the constant-acceleration scenario has been fed
C7_Witness ==
    /\ test = "test_constant_acceleration"
    /\ Assigned
    /\ Fed = iterations
    /\ MovableObject_position(mo) = Vec(450, 450)

\* C8: in the constant-velocity scenario, after the k-th fed position the
\* position is Vector(10 + 4k, 10 + 4k) and both components of velocity are
\* within 0.001 of 4; from tick 3 on (the second fed position) both
\* components of acceleration are within 0.001 of 0.
C8_ConstantVelocity ==
    (test = "test_constant_velocity" /\ Assigned)
    => /\ MovableObject_position(mo) = Vec(10 + 4 * Fed, 10 + 4 * Fed)
       /\ BothWithin(MovableObject_velocity(mo), RInt(4), Rat(1, 1000))
       /\ Fed >= 2 =>
             BothWithin(MovableObject_acceleration(mo), RInt(0), Rat(1, 1000))

\* the tenth position of the constant-velocity scenario has been fed
C8_Witness ==
    /\ test = "test_constant_velocity"
    /\ Assigned
    /\ Fed = iterations
    /\ MovableObject_position(mo) = Vec(50, 50)
    /\ MovableObject_velocity(mo) # Vec(4, 4)

====
